---------------------------- MODULE Spec2Model ----------------------------
(***************************************************************************)
(* A model of soonscan's interactive client (src/src/app.rs): the App      *)
(* state behind its mutex, the run loop (initial dashboard load, draw,     *)
(* handle_events), fetch_data with its query classification and RPC calls, *)
(* and the row set that render produces.                                   *)
(*                                                                         *)
(* Strings are sequences of one-character strings.  An Option is a         *)
(* sequence of length at most one: <<>> is None and <<x>> is Some(x).      *)
(***************************************************************************)
EXTENDS Integers, Sequences, FiniteSets, TLC

(***************************************************************************)
(* Bounds of the model.  A character key is appended only while the query  *)
(* is shorter than MaxTyped, and a paste only when the result is no longer *)
(* than MaxQueryLen.                                                       *)
(***************************************************************************)
MaxTyped == 1

MaxQueryLen == 64

(***************************************************************************)
(* The two endpoints (app.rs:29-30) and RpcNetwork (app.rs:32-54).         *)
(***************************************************************************)
DEVNET_RPC == "https://rpc.devnet.soo.network/rpc"

TESTNET_RPC == "https://rpc.testnet.soo.network/rpc"

RpcNetwork == {"Devnet", "Testnet"}

get_url(network) == IF network = "Devnet" THEN DEVNET_RPC ELSE TESTNET_RPC

InputMode == {"Normal", "Editing"}

None == <<>>

Some(x) == <<x>>

(***************************************************************************)
(* Base58 as Pubkey::from_str and Signature::from_str decode it            *)
(* (app.rs:356, app.rs:389).  The alphabet has no 0, O, I or l.            *)
(***************************************************************************)
B58Alphabet ==
    << "1", "2", "3", "4", "5", "6", "7", "8", "9",
       "A", "B", "C", "D", "E", "F", "G", "H", "J", "K", "L", "M", "N",
       "P", "Q", "R", "S", "T", "U", "V", "W", "X", "Y", "Z",
       "a", "b", "c", "d", "e", "f", "g", "h", "i", "j", "k",
       "m", "n", "o", "p", "q", "r", "s", "t", "u", "v", "w", "x", "y", "z" >>

\* The digit value of each character of the alphabet.
B58Index ==
    [c \in {B58Alphabet[i] : i \in 1..Len(B58Alphabet)} |->
        (CHOOSE i \in 1..Len(B58Alphabet) : B58Alphabet[i] = c) - 1]

\* The digit value of a character, or -1 for a character outside the alphabet.
B58Digit(c) == IF c \in DOMAIN B58Index THEN B58Index[c] ELSE -1

\* The decoder keeps the number in limbs of three bytes, little endian.
LimbBase == 16777216

\* One digit of the decoder: limbs := limbs * 58 + carry.
RECURSIVE MulAdd(_, _, _)
MulAdd(limbs, i, carry) ==
    IF i > Len(limbs)
    THEN IF carry = 0 THEN limbs ELSE Append(limbs, carry)
    ELSE LET v == limbs[i] * 58 + carry
         IN  MulAdd([limbs EXCEPT ![i] = v % LimbBase], i + 1, v \div LimbBase)

\* The digits s[i..j] taken into the number, or <<-1>> at a character
\* outside the alphabet.
RECURSIVE B58Digits(_, _, _, _)
B58Digits(s, i, j, limbs) ==
    IF i > j
    THEN limbs
    ELSE LET d == B58Digit(s[i])
             next == MulAdd(limbs, 1, d)
         IN  IF d < 0 THEN <<-1>>
             ELSE IF Len(next) >= 0 THEN B58Digits(s, i + 1, j, next) ELSE <<-1>>

\* The limbs of the number the digits from s[i] on spell, eight digits at a
\* time, or <<-1>> at a character outside the alphabet.
RECURSIVE B58Number(_, _, _)
B58Number(s, i, limbs) ==
    IF i > Len(s)
    THEN limbs
    ELSE LET j == IF i + 7 < Len(s) THEN i + 7 ELSE Len(s)
             next == B58Digits(s, i, j, limbs)
         IN  IF next = <<-1>> THEN <<-1>> ELSE B58Number(s, j + 1, next)

\* The number of bytes a number takes: none for zero.
ByteLen(limbs) ==
    IF limbs = <<>> THEN 0
    ELSE LET top == limbs[Len(limbs)]
         IN  3 * (Len(limbs) - 1)
               + (IF top < 256 THEN 1 ELSE IF top < 65536 THEN 2 ELSE 3)

\* The number of leading "1" characters: each decodes to one zero byte.
LeadingOnes(s) ==
    IF \A i \in 1..Len(s) : s[i] = "1" THEN Len(s)
    ELSE (CHOOSE i \in 1..Len(s) : s[i] # "1" /\ \A j \in 1..(i - 1) : s[j] = "1") - 1

\* The number of bytes the string decodes to, or -1 when it is not base58.
\* A leading "1" is the digit 0 and leaves the number at zero.
B58Decode(s) ==
    LET zeros == LeadingOnes(s)
        limbs == B58Number(s, zeros + 1, <<>>)
    IN  IF limbs = <<-1>> THEN -1 ELSE zeros + ByteLen(limbs)

Repeat(c, n) == [i \in 1..n |-> c]

\* B58Decode of the strings that typing at most MaxTyped characters and
\* then pasting "1"s makes, decoded once.
B58Known ==
    [s \in {t \o Repeat("1", n) :
                t \in UNION {[1..m -> {"1", "v"}] : m \in 0..MaxTyped},
                n \in 0..MaxQueryLen}
        |-> B58Decode(s)]

B58DecodedLen(s) == IF s \in DOMAIN B58Known THEN B58Known[s] ELSE B58Decode(s)

MAX_BASE58_LEN == 44

PUBKEY_BYTES == 32

MAX_BASE58_SIGNATURE_LEN == 88

SIGNATURE_BYTES == 64

\* A classifier that takes the length for the parse, as api.rs:2 does: the
\* mutant of Pubkey_from_str that C7 is checked against.
Pubkey_from_str_ByLength(s) == Len(s) = MAX_BASE58_LEN

\* Pubkey::from_str(&self.query).is_ok()
Pubkey_from_str(s) ==
    /\ Len(s) <= MAX_BASE58_LEN
    /\ B58DecodedLen(s) = PUBKEY_BYTES

\* Signature::from_str(&self.query).is_ok()
Signature_from_str(s) ==
    /\ Len(s) <= MAX_BASE58_SIGNATURE_LEN
    /\ B58DecodedLen(s) = SIGNATURE_BYTES

\* The branch fetch_data takes for a query (app.rs:356, 389, 439).
Classify(s) ==
    IF Pubkey_from_str(s) THEN "account"
    ELSE IF Signature_from_str(s) THEN "signature"
    ELSE "invalid"


(***************************************************************************)
(* What the model types and pastes.                                        *)
(***************************************************************************)
\* The System Program id, the address render names at app.rs:590.
SYSTEM_PROGRAM == Repeat("1", 32)

\* What cli_clipboard::get_contents() may return (app.rs:324).
Clipboard == {SYSTEM_PROGRAM}

\* The characters of the KeyCode::Char(c) arm (app.rs:331).
OtherChars == {"1"}

\* The events event::read() may return (app.rs:281): the keys handle_events
\* names, "^v" for Ctrl+V, and "Left" for any event no arm handles.
Keys == {"q", "e", "n", "Esc", "Enter", "?", "^v", "v", "Backspace", "Left"}
            \cup OtherChars

(***************************************************************************)
(* The values the RPC answers are abstracted to.                           *)
(***************************************************************************)
\* json!({"lamports", "owner", "space", "executable"}) (app.rs:363-368)
AccountJson == {"lamports", "owner", "space", "executable"}

\* json!({"slot", "blockTime", "meta"}) (app.rs:394-431)
TransactionJson == {"slot", "blockTime", "meta"}

\* json!(signatures) (app.rs:374): the lengths of the signatures listed.
SignaturesJson == <<88, 87>>

\* How a call of the blocking RpcClient ends (app.rs:360, 372, 392).
RpcOutcomes == {"ok", "notfound", "transport"}

\* How a reqwest call of the dashboard load ends (app.rs:123-134): the
\* result stored; send() failed; a status that is not a success; a body that
\* is not JSON; a JSON body with no result of the expected type.
HttpOutcomes == {"ok", "transport", "status", "decode", "noresult"}

DashboardMethods == {"getSlot", "getSupply", "getTransactionCount"}

(***************************************************************************)
(* The state.                                                              *)
(*   app       the App behind the mutex (app.rs:57-69)                     *)
(*   pc        where run is (app.rs:180-208)                               *)
(*   lockHeld  whether a guard of the App mutex is alive                   *)
(*   rpc       the request that is awaiting its response, if any           *)
(*   log       the calls made since the last draw, with how each ended     *)
(*   submitted the classification of the query submitted since the last    *)
(*             draw, or "none"                                             *)
(*   key       the key handle_events read since the last draw, or "none"   *)
(*   mainApp   the App of main.rs (main.rs:17-22)                          *)
(*   number    the argument of a call of format_longnumber                 *)
(*   formatted what the call returned, if it has returned                  *)
(***************************************************************************)
VARIABLES app, pc, lockHeld, rpc, log, submitted, key,
          mainApp, number, formatted

vars == <<app, pc, lockHeld, rpc, log, submitted, key,
          mainApp, number, formatted>>

\* What the dashboard program of app.rs works on.
dashboardVars == <<app, lockHeld, rpc, log, submitted, key>>

\* What the program of main.rs works on.
mainVars == <<mainApp>>

\* What a call of format_longnumber works on.
formatVars == <<number, formatted>>

\* A default App with Testnet selected: the mutant of AppDefault that C29 is
\* checked against.
AppDefault_Testnet ==
    [ query               |-> <<>>,
      input_mode          |-> "Normal",
      slot_info           |-> None,
      transaction_info    |-> None,
      supply_info         |-> None,
      json_response       |-> None,
      address_sign        |-> None,
      exit                |-> FALSE,
      show_popup          |-> FALSE,
      current_rpc_network |-> "Testnet" ]

\* impl Default for App (app.rs:78-94)
AppDefault ==
    [ query               |-> <<>>,
      input_mode          |-> "Normal",
      slot_info           |-> None,
      transaction_info    |-> None,
      supply_info         |-> None,
      json_response       |-> None,
      address_sign        |-> None,
      exit                |-> FALSE,
      show_popup          |-> FALSE,
      current_rpc_network |-> "Devnet" ]

\* A toggle that selects Testnet whatever is selected: the mutant of
\* toggle_rpc_network that C13 is checked against.
toggle_rpc_network_SelectsTestnet(a) ==
    [a EXCEPT !.current_rpc_network = "Testnet"]

\* App::toggle_rpc_network (app.rs:98-104)
toggle_rpc_network(a) ==
    [a EXCEPT !.current_rpc_network =
        IF a.current_rpc_network = "Devnet" THEN "Testnet" ELSE "Devnet"]

\* App::get_current_rpc_url (app.rs:106-108)
get_current_rpc_url(a) == get_url(a.current_rpc_network)

Request(method, url) == [method |-> method, url |-> url]

Call(request, outcome) ==
    [method |-> request.method, url |-> request.url, outcome |-> outcome]

\* #[derive(Default)] for the App of main.rs (main.rs:17-22)
MainAppDefault == [query |-> <<>>, counter |-> 0, exit |-> FALSE]

\* An i64 as format_longnumber sees it: its sign and the decimal digits of
\* its magnitude, as `to_string` writes them.
I64(neg, digits) == [neg |-> neg, digits |-> digits]

Init ==
    /\ mainApp = MainAppDefault
    /\ number = I64(FALSE, <<"0">>)
    /\ formatted = None
    /\ app = AppDefault
    /\ pc = "start"
    /\ lockHeld = FALSE
    /\ rpc = None
    /\ log = <<>>
    /\ submitted = "none"
    /\ key = "none"

(***************************************************************************)
(* App::fetch_initial_blockchain_data (app.rs:111-178): three POSTs, one   *)
(* after the other.  `.send().await?` and `.json().await?` return the      *)
(* error to run, which prints it (app.rs:187-189); a response that is not  *)
(* a success status is skipped.                                            *)
(***************************************************************************)
\* Whether the function returns early with Err after a call ending `outcome`.
LoadAborts(outcome) == outcome \in {"transport", "decode"}

\* app.rs:131-134
StoreSlot(a, outcome) ==
    CASE outcome = "ok" -> [a EXCEPT !.slot_info = Some(1234567)]
      [] outcome = "noresult" -> [a EXCEPT !.slot_info = None]
      [] OTHER -> a

\* app.rs:152-155
StoreSupply(a, outcome) ==
    CASE outcome = "ok" -> [a EXCEPT !.supply_info = Some({"context", "value"})]
      [] outcome = "noresult" -> [a EXCEPT !.supply_info = None]
      [] OTHER -> a

\* app.rs:172-175
StoreTransactionCount(a, outcome) ==
    CASE outcome = "ok" -> [a EXCEPT !.transaction_info = Some(42)]
      [] outcome = "noresult" -> [a EXCEPT !.transaction_info = None]
      [] OTHER -> a

\* run takes the lock and the load sends getSlot (app.rs:186-187, 115-129).
RunStart ==
    /\ pc = "start"
    /\ UNCHANGED <<mainVars, formatVars>>
    /\ pc' = "load_slot"
    /\ lockHeld' = TRUE
    /\ rpc' = Some(Request("getSlot", get_current_rpc_url(app)))
    /\ UNCHANGED <<app, log, submitted, key>>

\* The getSlot call ends; getSupply is sent (app.rs:129-150).
LoadSlotReturns ==
    /\ pc = "load_slot"
    /\ UNCHANGED <<mainVars, formatVars>>
    /\ \E outcome \in HttpOutcomes :
          /\ log' = Append(log, Call(rpc[1], outcome))
          /\ IF LoadAborts(outcome)
             THEN /\ pc' = "load_end"
                  /\ rpc' = None
                  /\ app' = app
             ELSE /\ pc' = "load_supply"
                  /\ app' = StoreSlot(app, outcome)
                  /\ rpc' = Some(Request("getSupply", get_current_rpc_url(app')))
    /\ UNCHANGED <<lockHeld, submitted, key>>

\* The getSupply call ends; getTransactionCount is sent (app.rs:150-170).
LoadSupplyReturns ==
    /\ pc = "load_supply"
    /\ UNCHANGED <<mainVars, formatVars>>
    /\ \E outcome \in HttpOutcomes :
          /\ log' = Append(log, Call(rpc[1], outcome))
          /\ IF LoadAborts(outcome)
             THEN /\ pc' = "load_end"
                  /\ rpc' = None
                  /\ app' = app
             ELSE /\ pc' = "load_transaction_count"
                  /\ app' = StoreSupply(app, outcome)
                  /\ rpc' = Some(Request("getTransactionCount",
                                         "https://rpc.devnet.soo.network/rpc"))
    /\ UNCHANGED <<lockHeld, submitted, key>>

\* The getTransactionCount call ends (app.rs:170-177).
LoadTransactionCountReturns ==
    /\ pc = "load_transaction_count"
    /\ UNCHANGED <<mainVars, formatVars>>
    /\ \E outcome \in HttpOutcomes :
          /\ log' = Append(log, Call(rpc[1], outcome))
          /\ app' = IF LoadAborts(outcome) THEN app
                    ELSE StoreTransactionCount(app, outcome)
    /\ pc' = "load_end"
    /\ rpc' = None
    /\ UNCHANGED <<lockHeld, submitted, key>>

\* The block of app.rs:185-190 ends and drops the guard.
LoadEnd ==
    /\ pc = "load_end"
    /\ UNCHANGED <<mainVars, formatVars>>
    /\ pc' = "loop"
    /\ lockHeld' = FALSE
    /\ UNCHANGED <<app, rpc, log, submitted, key>>

(***************************************************************************)
(* impl Widget for &App, render (app.rs:474-780): the rows of the results  *)
(* table, each a sequence of cells.                                        *)
(***************************************************************************)
\* app.rs:491-545
DashboardRows(a) ==
    (IF a.slot_info # None
     THEN << <<"Network", "SoonScan Devnet">>, <<"Slot:", "slot_info">> >>
     ELSE <<>>)
    \o (IF a.supply_info # None /\ "value" \in a.supply_info[1]
        THEN << <<"Circulating Supply:", "circulating / total">>,
                <<"Circulating Percentage:", "% is circulating">> >>
        ELSE <<>>)
    \o (IF a.transaction_info # None
        THEN << <<"Transaction count:", "transaction_info">> >>
        ELSE <<>>)

\* app.rs:617-684
HistoryRows(a) ==
    IF a.address_sign = None
    THEN <<>>
    ELSE << <<" ">>, <<"Transaction History">>, <<" ">>,
            <<"Transaction", "Block", "Timestamp", "Result">> >>
         \o [i \in 1..Len(a.address_sign[1]) |->
                <<"signature[0..23]...", "slot", "blockTime", "confirmationStatus">>]

\* app.rs:551-614
AccountRows ==
    << <<"Type:", "Account Info">>, <<"Balance (SOL):", "lamports">>,
       <<"Allocated Data Size:", "space">>, <<"Assigned Program Id:", "owner">>,
       <<"Executable:", "executable">> >>

\* app.rs:690-758
TransactionRows ==
    << <<"Type:", "Transaction Info">>, <<"Slot:", "slot">>,
       <<"Block Time:", "blockTime">>, <<"Fee (SOL):", "fee">>,
       <<"Status:", "status">>, <<"Signatures:", "query[0..24]...">> >>

\* app.rs:761-764
UnsupportedRows == << <<"Error:", "Unsupported response type.">> >>

\* app.rs:768-771
LoadingRows == << <<"Status:", "Loading...">> >>

\* app.rs:490-772
Render(a) ==
    IF a.query = <<>> THEN DashboardRows(a)
    ELSE IF a.json_response # None
         THEN IF "lamports" \in a.json_response[1]
              THEN AccountRows \o HistoryRows(a)
              ELSE IF "slot" \in a.json_response[1] THEN TransactionRows
              ELSE UnsupportedRows
    ELSE LoadingRows

\* The slices of render that are out of range: &self.query[0..24]
\* (app.rs:756) and &signature[0..23] (app.rs:674).
RenderPanics(a) ==
    /\ a.query # <<>>
    /\ a.json_response # None
    /\ IF "lamports" \in a.json_response[1]
       THEN /\ a.address_sign # None
            /\ \E i \in 1..Len(a.address_sign[1]) : a.address_sign[1][i] < 23
       ELSE /\ "slot" \in a.json_response[1]
            /\ Len(a.query) < 24

(***************************************************************************)
(* App::run, the loop (app.rs:192-206).                                    *)
(***************************************************************************)
\* A draw that a timer makes while handle_events waits for a key: the mutant
\* of Draw that C26 is checked against.
Draw_OnTimer ==
    /\ pc \in {"loop", "events"}
    /\ UNCHANGED <<mainVars, formatVars>>
    /\ pc' = IF app.exit THEN "done"
             ELSE IF RenderPanics(app) THEN "panic"
             ELSE "events"
    /\ log' = <<>>
    /\ submitted' = "none"
    /\ key' = "none"
    /\ UNCHANGED <<app, lockHeld, rpc>>

\* Lock, test exit, draw, unlock (app.rs:193-199).
Draw ==
    /\ pc = "loop"
    /\ UNCHANGED <<mainVars, formatVars>>
    /\ pc' = IF app.exit THEN "done"
             ELSE IF RenderPanics(app) THEN "panic"
             ELSE "events"
    /\ log' = <<>>
    /\ submitted' = "none"
    /\ key' = "none"
    /\ UNCHANGED <<app, lockHeld, rpc>>

(***************************************************************************)
(* App::fetch_data (app.rs:350-445), one piece per RPC call: each gives    *)
(* the App, the request now awaited (None when fetch_data has returned)    *)
(* and where run is.                                                       *)
(***************************************************************************)
Step(a, request, at) == [app |-> a, rpc |-> request, pc |-> at]

\* From the entry to the first call (app.rs:352-360, 389-392, 439-442).
FetchDataBegin(a) ==
    LET url == DEVNET_RPC
    IN  IF Pubkey_from_str(a.query)
        THEN Step(a, Some(Request("getAccountInfo", url)), "fetch_account")
        ELSE IF Signature_from_str(a.query)
        THEN Step(a, Some(Request("getTransaction", url)), "fetch_transaction")
        ELSE Step([a EXCEPT !.json_response = None], None, "loop")

\* get_account returned and the signatures call is made whatever the
\* outcome: the mutant of AccountReturned that C5 is checked against.
AccountReturned_Ungated(a, outcome) ==
    Step(IF outcome = "ok"
         THEN [a EXCEPT !.json_response = Some(AccountJson)]
         ELSE [a EXCEPT !.json_response = None, !.address_sign = None],
         Some(Request("getSignaturesForAddress", DEVNET_RPC)),
         "fetch_signatures")

\* client.get_account returned (app.rs:360-372, 382-386).
AccountReturned(a, outcome) ==
    IF outcome = "ok"
    THEN Step([a EXCEPT !.json_response = Some(AccountJson)],
              Some(Request("getSignaturesForAddress", DEVNET_RPC)),
              "fetch_signatures")
    ELSE Step([a EXCEPT !.json_response = None, !.address_sign = None],
              None, "loop")

\* client.get_signatures_for_address returned (app.rs:372-380).
SignaturesReturned(a, outcome) ==
    IF outcome = "ok"
    THEN Step([a EXCEPT !.address_sign = Some(SignaturesJson)], None, "loop")
    ELSE Step([a EXCEPT !.address_sign = None], None, "loop")

\* get_transaction returned and its error ends run: the mutant of
\* TransactionReturned that C14 is checked against.
TransactionReturned_ErrorEndsRun(a, outcome) ==
    IF outcome = "ok"
    THEN Step([a EXCEPT !.json_response = Some(TransactionJson)], None, "loop")
    ELSE Step(a, None, "done")

\* client.get_transaction returned (app.rs:392-438).
TransactionReturned(a, outcome) ==
    IF outcome = "ok"
    THEN Step([a EXCEPT !.json_response = Some(TransactionJson)], None, "loop")
    ELSE Step([a EXCEPT !.json_response = None], None, "loop")

(***************************************************************************)
(* App::handle_events (app.rs:280-348).                                    *)
(***************************************************************************)
\* A pop that takes the first character: the mutant of Pop that C19 is
\* checked against.
Pop_First(s) == IF s = <<>> THEN s ELSE SubSeq(s, 2, Len(s))

\* String::pop (app.rs:340)
Pop(s) == IF s = <<>> THEN s ELSE SubSeq(s, 1, Len(s) - 1)

\* A 'q' arm that returns Ok(true) without setting exit: the mutant of
\* KeyQuit that C17 is checked against.
KeyQuit_ExitNotSet(a) == a

\* KeyCode::Char('q') (app.rs:284-288)
KeyQuit(a) == [a EXCEPT !.exit = TRUE]

\* An 'e' arm that changes nothing: the mutant of KeyEdit that C21 is
\* checked against.
KeyEdit_Ignored(a) == a

\* KeyCode::Char('e') (app.rs:289-294)
KeyEdit(a) ==
    IF a.input_mode = "Normal" THEN [a EXCEPT !.input_mode = "Editing"] ELSE a

\* A Char(c) arm that pushes c in Normal mode too: the mutant of KeyChar that
\* C28 is checked against.
KeyChar_AnyMode(a, c) == [a EXCEPT !.query = Append(a.query, c)]

\* KeyCode::Char(c) (app.rs:331-336)
KeyChar(a, c) ==
    IF a.input_mode = "Editing" THEN [a EXCEPT !.query = Append(a.query, c)]
    ELSE a

\* An Esc arm that also clears the buffer: the mutant of KeyEsc that C18 is
\* checked against.
KeyEsc_ClearsQuery(a) == [a EXCEPT !.input_mode = "Normal", !.query = <<>>]

\* KeyCode::Esc (app.rs:299-302)
KeyEsc(a) == [a EXCEPT !.input_mode = "Normal"]

\* A '?' arm that shows the popup and never hides it: the mutant of KeyHelp
\* that C20 is checked against.
KeyHelp_ShowsOnly(a) == [a EXCEPT !.show_popup = TRUE]

\* KeyCode::Char('?') (app.rs:314-317)
KeyHelp(a) == [a EXCEPT !.show_popup = ~a.show_popup]

\* The arms that take the lock, change the App and fall through to
\* Ok(false): every key but 'q' and a submitting Enter.  `clip` is what
\* cli_clipboard::get_contents() gives: None for Err.
OnKey(a, k, clip) ==
    LET editing == a.input_mode = "Editing"
    IN  CASE k = "e" -> KeyEdit(a)
          [] k = "n" -> toggle_rpc_network(a)
          [] k = "Esc" -> KeyEsc(a)
          [] k = "Enter" ->
               IF editing THEN [a EXCEPT !.input_mode = "Normal"] ELSE a
          [] k = "?" -> KeyHelp(a)
          [] k = "^v" ->
               IF editing /\ clip # None
               THEN [a EXCEPT !.query = a.query \o clip[1]]
               ELSE a
          [] k = "v" ->
               IF editing THEN [a EXCEPT !.query = Append(a.query, "v")] ELSE a
          [] k \in OtherChars -> KeyChar(a, k)
          [] k = "Backspace" ->
               IF editing THEN [a EXCEPT !.query = Pop(a.query)] ELSE a
          [] OTHER -> a

\* An Enter arm that calls fetch_data whatever the buffer holds: the mutant
\* of Submits that C16 is checked against.
Submits_EmptyToo(a, k) == k = "Enter" /\ a.input_mode = "Editing"

\* Whether the Enter arm calls fetch_data (app.rs:305-308).
Submits(a, k) ==
    k = "Enter" /\ a.input_mode = "Editing" /\ a.query # <<>>

\* The bounds on what is typed and pasted.
WithinBounds(a, k, clip) ==
    /\ k \in OtherChars \cup {"v"} => Len(a.query) < MaxTyped
    /\ k = "^v" /\ clip # None => Len(a.query) + Len(clip[1]) <= MaxQueryLen
    /\ k # "^v" => clip = None

\* One call of handle_events: event::read() gives key k.
HandleEvents(k, clip) ==
    /\ pc = "events"
    /\ UNCHANGED <<mainVars, formatVars>>
    /\ WithinBounds(app, k, clip)
    /\ key' = k
    /\ IF k = "q"
       THEN \* app.rs:284-288, then the break of app.rs:202-204
            /\ app' = KeyQuit(app)
            /\ pc' = "done"
            /\ UNCHANGED <<lockHeld, rpc, log, submitted>>
       ELSE IF Submits(app, k)
       THEN \* app.rs:304-308: the guard lives until fetch_data is through
            LET next == FetchDataBegin(OnKey(app, k, clip))
            IN  /\ app' = next.app
                /\ rpc' = next.rpc
                /\ pc' = next.pc
                /\ lockHeld' = (next.pc # "loop")
                /\ submitted' = CASE next.pc = "fetch_account" -> "account"
                                  [] next.pc = "fetch_transaction" -> "signature"
                                  [] OTHER -> "invalid"
                /\ UNCHANGED log
       ELSE /\ app' = OnKey(app, k, clip)
            /\ pc' = "loop"
            /\ UNCHANGED <<lockHeld, rpc, log, submitted>>

\* The call fetch_data is blocked in returns, and fetch_data goes on to its
\* next call or returns to handle_events, which drops the guard.
RpcReturns ==
    /\ pc \in {"fetch_account", "fetch_signatures", "fetch_transaction"}
    /\ UNCHANGED <<mainVars, formatVars>>
    /\ \E outcome \in RpcOutcomes :
          LET next == CASE pc = "fetch_account" -> AccountReturned(app, outcome)
                        [] pc = "fetch_signatures" -> SignaturesReturned(app, outcome)
                        [] pc = "fetch_transaction" -> TransactionReturned(app, outcome)
          IN  /\ log' = Append(log, Call(rpc[1], outcome))
              /\ app' = next.app
              /\ rpc' = next.rpc
              /\ pc' = next.pc
              /\ lockHeld' = (next.pc # "loop")
    /\ UNCHANGED <<submitted, key>>

Next ==
    \/ RunStart
    \/ LoadSlotReturns
    \/ LoadSupplyReturns
    \/ LoadTransactionCountReturns
    \/ LoadEnd
    \/ Draw
    \/ \E k \in Keys, clip \in {None} \cup {Some(c) : c \in Clipboard} :
          HandleEvents(k, clip)
    \/ RpcReturns

Spec == Init /\ [][Next]_vars

(***************************************************************************)
(* The program of main.rs: main (main.rs:108-128) and its App              *)
(* (main.rs:17-70).                                                        *)
(***************************************************************************)
\* counter: u8 (main.rs:20)
U8_MAX == 255

\* A transaction signature, as an argument of the program.
SIGNATURE_ARG == Repeat("1", 64)

\* env::args() without the program's name: no argument, a signature, a
\* string that is no signature, a flag and a signature.
Args == { <<>>, <<SIGNATURE_ARG>>, <<Repeat("1", 3)>>,
          <<Repeat("-", 2), SIGNATURE_ARG>> }

\* initial_query (main.rs:113-117); args[0] of the code is the program's name.
initial_query(args) == IF Len(args) + 1 > 1 THEN args[1] ELSE <<>>

\* How a call ends: with a value, or in a panic.
Done(x) == [value |-> x, panicked |-> FALSE]

Panicked(x) == [value |-> x, panicked |-> TRUE]

\* App::exit (main.rs:56-58)
exit(a) == {Done([a EXCEPT !.exit = TRUE])}

\* App::decrement_counter (main.rs:60-62): `-= 1` on a u8 at 0 panics where
\* overflow checks are compiled in and wraps where they are not.
decrement_counter(a) ==
    IF a.counter = 0
    THEN {Panicked(a), Done([a EXCEPT !.counter = U8_MAX])}
    ELSE {Done([a EXCEPT !.counter = a.counter - 1])}

\* App::increment_counter (main.rs:64-66): `+= 1` likewise at 255.
increment_counter(a) ==
    IF a.counter = U8_MAX
    THEN {Panicked(a), Done([a EXCEPT !.counter = 0])}
    ELSE {Done([a EXCEPT !.counter = a.counter + 1])}

\* App::handle_key_event (main.rs:47-54)
handle_key_event(a, k) ==
    CASE k = "q" -> exit(a)
      [] k = "Left" -> decrement_counter(a)
      [] k = "Right" -> increment_counter(a)
      [] OTHER -> {Done(a)}

\* The keys event::read() gives the program of main.rs.
MainKeys == {"q", "Left", "Right", "Enter"}

MainInit ==
    /\ mainApp = MainAppDefault
    /\ pc = "main"
    /\ number = I64(FALSE, <<"0">>)
    /\ formatted = None
    /\ app = AppDefault
    /\ lockHeld = FALSE
    /\ rpc = None
    /\ log = <<>>
    /\ submitted = "none"
    /\ key = "none"

\* main up to the call of run (main.rs:108-125).
Main ==
    /\ pc = "main"
    /\ \E args \in Args :
          mainApp' = [MainAppDefault EXCEPT !.query = initial_query(args)]
    /\ pc' = "main_run"
    /\ UNCHANGED <<dashboardVars, formatVars>>

\* App::run, `while !self.exit` holds and the frame is drawn (main.rs:26-27).
MainDraw ==
    /\ pc = "main_run"
    /\ ~mainApp.exit
    /\ pc' = "main_events"
    /\ UNCHANGED <<mainVars, dashboardVars, formatVars>>

\* App::handle_events (main.rs:37-45): event::read() gives key k.
MainHandleEvents(k) ==
    /\ pc = "main_events"
    /\ \E next \in handle_key_event(mainApp, k) :
          /\ mainApp' = next.value
          /\ pc' = IF next.panicked THEN "panic" ELSE "main_run"
    /\ UNCHANGED <<dashboardVars, formatVars>>

\* App::run returns and main with it (main.rs:26, 30, 126-128).
MainReturns ==
    /\ pc = "main_run"
    /\ mainApp.exit
    /\ pc' = "main_done"
    /\ UNCHANGED <<mainVars, dashboardVars, formatVars>>

MainNext ==
    \/ Main
    \/ MainDraw
    \/ \E k \in MainKeys : MainHandleEvents(k)
    \/ MainReturns

MainSpec == MainInit /\ [][MainNext]_vars

(***************************************************************************)
(* App::format_longnumber (app.rs:452-471), on the characters of the       *)
(* number as `to_string` writes them.                                      *)
(***************************************************************************)
\* The digits the numbers of the model are made of, and their longest.
MaxDigits == 6

\* The magnitudes of i64::MAX and of i64::MIN.
I64_MAX_DIGITS == <<"9", "2", "2", "3", "3", "7", "2", "0", "3", "6", "8", "5", "4", "7", "7", "5", "8", "0", "7">>

I64_MIN_DIGITS == <<"9", "2", "2", "3", "3", "7", "2", "0", "3", "6", "8", "5", "4", "7", "7", "5", "8", "0", "8">>

\* The magnitudes tried: 0, those of up to MaxDigits digits over 0, 1, 7
\* and 9 without a leading 0, 42 and 1234567.
Magnitudes ==
    {<<"0">>, <<"4", "2">>, <<"1", "2", "3", "4", "5", "6", "7">>}
    \cup {<<h>> \o t : h \in {"1", "9"},
                       t \in UNION {[1..n -> {"0", "7"}] : n \in 0..(MaxDigits - 1)}}

\* The i64 values format_longnumber is called with.
Numbers ==
    {I64(FALSE, m) : m \in Magnitudes \cup {I64_MAX_DIGITS}}
    \cup {I64(TRUE, m) : m \in (Magnitudes \ {<<"0">>}) \cup {I64_MIN_DIGITS}}

\* i64::abs (app.rs:456): the magnitude of i64::MIN is no i64, and abs
\* panics where overflow checks are compiled in and gives i64::MIN back where
\* they are not.
abs(n) ==
    IF n.neg /\ n.digits = I64_MIN_DIGITS
    THEN {Panicked(n), Done(n)}
    ELSE {Done(I64(FALSE, n.digits))}

\* i64::to_string (app.rs:456)
to_string(n) == IF n.neg THEN <<"-">> \o n.digits ELSE n.digits

\* The loop of app.rs:459-464 from index i on.
RECURSIVE FormatLoop(_, _, _)
FormatLoop(number_str, i, formatted_) ==
    IF i >= Len(number_str) THEN formatted_
    ELSE LET len == Len(number_str)
             sep == IF i > 0 /\ (len - i) % 3 = 0 THEN <<",">> ELSE <<>>
         IN  FormatLoop(number_str, i + 1,
                        (formatted_ \o sep) \o <<number_str[i + 1]>>)

\* App::format_longnumber (app.rs:452-471)
format_longnumber(n) ==
    {IF r.panicked THEN Panicked(<<>>)
     ELSE LET grouped == FormatLoop(to_string(r.value), 0, <<>>)
          IN  Done(IF n.neg THEN <<"-">> \o grouped ELSE grouped)
       : r \in abs(n)}

FormatInit ==
    /\ number \in Numbers
    /\ formatted = None
    /\ pc = "format"
    /\ mainApp = MainAppDefault
    /\ app = AppDefault
    /\ lockHeld = FALSE
    /\ rpc = None
    /\ log = <<>>
    /\ submitted = "none"
    /\ key = "none"

\* One call of format_longnumber, as render makes them (app.rs:499-702).
FormatLongnumber ==
    /\ pc = "format"
    /\ \E r \in format_longnumber(number) :
          /\ formatted' = IF r.panicked THEN None ELSE Some(r.value)
          /\ pc' = IF r.panicked THEN "panic" ELSE "formatted"
    /\ UNCHANGED <<number, mainVars, dashboardVars>>

FormatNext == FormatLongnumber

FormatSpec == FormatInit /\ [][FormatNext]_vars

(***************************************************************************)
(* The claims.                                                             *)
(***************************************************************************)
\* The methods fetch_data calls.
QueryMethods == {"getAccountInfo", "getSignaturesForAddress", "getTransaction"}

\* A call of fetch_data is awaiting its response.
QueryFetchOutstanding == rpc # None /\ rpc[1].method \in QueryMethods

\* fetch_data has returned for the query submitted in this iteration, and
\* the state is the one the next draw renders.
FetchCompleted == pc = "loop" /\ submitted # "none"

\* C1: the App mutex is never held while an RPC request is outstanding.
C1_LockNeverHeldAcrossRpc == rpc # None => ~lockHeld

\* C2: while a query fetch is outstanding the event loop is not blocked: a
\* 'q' that is pressed is handled (and sets exit) without waiting for the
\* fetch to complete.
C2_QuitHandledDuringFetch ==
    QueryFetchOutstanding => ENABLED HandleEvents("q", None)

\* The field of the App a dashboard call fills.
DashboardField(a, method) ==
    CASE method = "getSlot" -> a.slot_info
      [] method = "getSupply" -> a.supply_info
      [] method = "getTransactionCount" -> a.transaction_info

\* C4: the dashboard load issues all three calls whatever the outcome of
\* each, and a field is populated exactly when its own call succeeded.
C4_DashboardCallsIndependent ==
    pc = "load_end" =>
        /\ {log[i].method : i \in DOMAIN log} = DashboardMethods
        /\ \A i \in DOMAIN log :
              DashboardField(app, log[i].method) # None <=> log[i].outcome = "ok"

\* C5: for an account query the signatures call is made only after the
\* account call succeeded; when the signatures call fails the account result
\* stays installed without signatures; when the account call fails no
\* signatures call is made and neither account data nor signatures are
\* installed.
C5_SignaturesFollowAccount ==
    /\ \A i \in DOMAIN log :
          log[i].method = "getSignaturesForAddress" =>
              /\ i > 1
              /\ log[i - 1].method = "getAccountInfo"
              /\ log[i - 1].outcome = "ok"
    /\ (rpc # None /\ rpc[1].method = "getSignaturesForAddress") =>
          /\ log # <<>>
          /\ log[Len(log)].method = "getAccountInfo"
          /\ log[Len(log)].outcome = "ok"
    /\ (FetchCompleted /\ log # <<>> /\ log[1].method = "getAccountInfo") =>
          IF log[1].outcome = "ok"
          THEN /\ Len(log) = 2
               /\ log[2].method = "getSignaturesForAddress"
               /\ app.json_response = Some(AccountJson)
               /\ log[2].outcome # "ok" => app.address_sign = None
          ELSE /\ Len(log) = 1
               /\ app.json_response = None
               /\ app.address_sign = None

\* C5's case: the account call succeeded and the signatures call failed.
C5_Witness ==
    /\ FetchCompleted
    /\ Len(log) = 2
    /\ log[1].method = "getAccountInfo"
    /\ log[2].outcome = "transport"
    /\ app.json_response = Some(AccountJson)

\* C6: a submitted query that parses neither as an address nor as a
\* signature makes no RPC call and is rendered as one explanatory row that
\* is not the Loading row.
C6_InvalidRendersUnsupported ==
    (FetchCompleted /\ submitted = "invalid") =>
        /\ log = <<>>
        /\ Len(Render(app)) = 1
        /\ Render(app) # LoadingRows

\* A string that is the base58 of exactly n bytes.
DecodesTo(s, n) == B58Decode(s) = n

\* C7 as stated: a submitted query whose length is not 44 and that fails
\* signature parsing is classified Invalid, never fetched as an account or
\* as a transaction.
C7_LengthNot44FailsClosed ==
    (submitted # "none" /\ Len(app.query) # 44
        /\ ~DecodesTo(app.query, SIGNATURE_BYTES)) =>
        /\ submitted = "invalid"
        /\ log = <<>>
        /\ rpc = None

\* C7, amended: a submitted query that is neither the base58 of 32 bytes nor
\* the base58 of 64 bytes is classified Invalid, never fetched as an account
\* or as a transaction.
C7_UnparsableFailsClosed ==
    (submitted # "none" /\ ~DecodesTo(app.query, PUBKEY_BYTES)
        /\ ~DecodesTo(app.query, SIGNATURE_BYTES)) =>
        /\ submitted = "invalid"
        /\ log = <<>>
        /\ rpc = None

\* C7's case: a query of 44 characters that parses as neither was submitted.
C7_Witness ==
    /\ FetchCompleted
    /\ submitted = "invalid"
    /\ Len(app.query) = 44
    /\ ~DecodesTo(app.query, PUBKEY_BYTES)
    /\ ~DecodesTo(app.query, SIGNATURE_BYTES)

\* C8: once the fetch of a submitted query has completed, with success,
\* not-found or an error, the Loading row is no longer rendered.
C8_PendingClearedOnCompletion ==
    (FetchCompleted /\ submitted \in {"account", "signature"}) =>
        Render(app) # LoadingRows

\* The App after the call fetch_data awaits ends with `outcome`.
AfterFirstCall(outcome) ==
    IF pc = "fetch_account" THEN AccountReturned(app, outcome).app
    ELSE TransactionReturned(app, outcome).app

\* C9: when the RPC reports no such account or transaction the rendering is
\* one explanatory row, which differs from the rendering after a transport
\* failure and from the Loading row.
C9_NotFoundRenderedDistinctly ==
    pc \in {"fetch_account", "fetch_transaction"} =>
        /\ Len(Render(AfterFirstCall("notfound"))) = 1
        /\ Render(AfterFirstCall("notfound")) # Render(AfterFirstCall("transport"))
        /\ Render(AfterFirstCall("notfound")) # LoadingRows

\* C10: from the submission of a query until its fetch completes, no result
\* of an earlier query is held in the display model.
C10_ResetToPendingOnSubmit ==
    /\ pc \in {"fetch_account", "fetch_transaction"} =>
          app.json_response = None /\ app.address_sign = None
    /\ pc = "fetch_signatures" => app.address_sign = None

\* C11: when the fetch of a submitted query has completed, every stored
\* result field stems from that submission: json_response is held only if
\* its first call succeeded, and address_sign only if it was an account query
\* whose signatures call succeeded.
C11_ModelReplacedWholesale ==
    FetchCompleted =>
        /\ app.json_response # None =>
              /\ log # <<>>
              /\ log[1].outcome = "ok"
              /\ app.json_response[1] =
                    (IF submitted = "account" THEN AccountJson ELSE TransactionJson)
        /\ app.address_sign # None =>
              /\ submitted = "account"
              /\ Len(log) = 2
              /\ log[2].method = "getSignaturesForAddress"
              /\ log[2].outcome = "ok"

\* C12: a query fetch sends its RPC calls to the endpoint of the network that
\* is selected.
C12_FetchUsesSelectedNetwork ==
    QueryFetchOutstanding => rpc[1].url = get_current_rpc_url(app)

\* The network that is not n.
OtherNetwork(n) == IF n = "Devnet" THEN "Testnet" ELSE "Devnet"

\* C13: in any input mode 'n' flips the selected network, so that two presses
\* restore it, and changes nothing else: it makes no RPC call and leaves the
\* dashboard fields, the query result, the query buffer, the input mode, the
\* popup flag and exit as they were.
C13_NetworkToggleFrame ==
    [][HandleEvents("n", None) =>
          /\ app'.current_rpc_network = OtherNetwork(app.current_rpc_network)
          /\ OtherNetwork(app'.current_rpc_network) = app.current_rpc_network
          /\ app' = [app EXCEPT !.current_rpc_network = app'.current_rpc_network]
          /\ rpc' = None
          /\ log' = log
          /\ submitted' = "none"
          /\ pc' = "loop"]_vars

\* C13's case: 'n' was pressed in Editing mode, with a query in the buffer.
C13_Witness ==
    /\ key = "n"
    /\ app.input_mode = "Editing"
    /\ app.query # <<>>
    /\ app.current_rpc_network = "Testnet"

\* The last call made since the last draw did not succeed.
LastCallFailed == log # <<>> /\ log[Len(log)].outcome # "ok"

\* C14: no fetch-path error terminates the program.  A call of the dashboard
\* load or of a query fetch that fails leaves exit false and run neither
\* stopped nor panicked; once the fetch or the load has returned after a
\* failure the next draw succeeds and leads to handle_events, which reads
\* the next key.
C14_ErrorsDoNotTerminate ==
    /\ [](LastCallFailed =>
            /\ ~app.exit
            /\ pc \notin {"done", "panic"}
            /\ pc = "loop" => ~RenderPanics(app) /\ ENABLED Draw)
    /\ [][(Draw /\ LastCallFailed) =>
            pc' = "events"]_vars

\* C14's case: a query fetch failed in transport and has returned to run.
C14_Witness ==
    /\ pc = "loop"
    /\ submitted \in {"account", "signature"}
    /\ LastCallFailed
    /\ log[Len(log)].outcome = "transport"
    /\ ~app.exit

\* The character keys that handle_events can read in the model.
CharKeys == {"e", "n", "q", "v", "?"} \cup OtherChars

\* C15: in Editing mode every character key appends its character to the end
\* of the query buffer, 'e', 'n', 'q', 'v' and '?' included.
C15_EditingAppendsEveryChar ==
    [][\A c \in CharKeys :
          (HandleEvents(c, None) /\ app.input_mode = "Editing") =>
              app'.query = Append(app.query, c)]_vars

\* C16: in Editing mode Enter switches to Normal mode; fetch_data is called
\* exactly when the query buffer is not empty; with an empty buffer no RPC
\* call is made and the dashboard stays displayed.
C16_EnterSubmitsNonEmpty ==
    [][(HandleEvents("Enter", None) /\ app.input_mode = "Editing") =>
          /\ app'.input_mode = "Normal"
          /\ app'.query = app.query
          /\ app.query # <<>> <=> submitted' # "none"
          /\ app.query = <<>> =>
                /\ rpc' = None
                /\ log' = log
                /\ pc' = "loop"
                /\ app' = [app EXCEPT !.input_mode = "Normal"]
                /\ Render(app') = DashboardRows(app')]_vars

\* C16's case: Enter was pressed in Editing mode with an empty buffer.
C16_Witness ==
    /\ key = "Enter"
    /\ app.query = <<>>
    /\ app.input_mode = "Normal"
    /\ submitted = "none"
    /\ app.slot_info # None

\* C17: 'q' sets exit in whatever state it is read and ends run; exit is
\* never reset; and once exit is set run has ended, so that no key is read
\* and no step is taken any more.
C17_QuitIsTerminal ==
    /\ [][HandleEvents("q", None) => (app'.exit /\ pc' = "done")]_vars
    /\ [][app.exit => app'.exit]_vars
    /\ [](app.exit =>
            /\ pc = "done"
            /\ \A k \in Keys : ~ENABLED HandleEvents(k, None)
            /\ ~ENABLED Next)

\* C17's case: 'q' was read in Editing mode, with a query in the buffer.
C17_Witness ==
    /\ key = "q"
    /\ app.exit
    /\ app.input_mode = "Editing"
    /\ app.query # <<>>
    /\ pc = "done"

\* C18: in Editing mode Esc switches to Normal mode, leaves the query buffer
\* and every other field unchanged, and triggers no fetch.
C18_EscLeavesEditing ==
    [][(HandleEvents("Esc", None) /\ app.input_mode = "Editing") =>
          /\ app'.input_mode = "Normal"
          /\ app'.query = app.query
          /\ app' = [app EXCEPT !.input_mode = "Normal"]
          /\ submitted' = "none"
          /\ rpc' = None
          /\ log' = log
          /\ pc' = "loop"]_vars

\* C18's case: Esc was read with a query in the buffer that Enter would have
\* submitted.
C18_Witness ==
    /\ key = "Esc"
    /\ app.input_mode = "Normal"
    /\ app.query # <<>>
    /\ app.json_response = None
    /\ submitted = "none"

\* C19: in Editing mode Backspace removes exactly the last character of the
\* query buffer, does nothing to an empty buffer, and leaves the input mode
\* and all other state unchanged.
C19_BackspaceRemovesLast ==
    [][(HandleEvents("Backspace", None) /\ app.input_mode = "Editing") =>
          /\ app.query = <<>> => app'.query = <<>>
          /\ app.query # <<>> =>
                /\ Len(app'.query) = Len(app.query) - 1
                /\ \A i \in 1..Len(app'.query) : app'.query[i] = app.query[i]
          /\ app' = [app EXCEPT !.query = app'.query]
          /\ submitted' = "none"
          /\ rpc' = None
          /\ log' = log
          /\ pc' = "loop"]_vars

\* C19's case: Backspace was read in Editing mode and took the last
\* character off the buffer, of which "v" is left.
C19_Witness ==
    /\ key = "Backspace"
    /\ app.input_mode = "Editing"
    /\ app.query = <<"v">>

\* C20: in any input mode '?' flips the popup flag, so that two presses
\* restore it, and leaves the query buffer, the input mode, the network, the
\* stored results and exit unchanged.
C20_HelpToggleFrame ==
    [][HandleEvents("?", None) =>
          /\ app'.show_popup = ~app.show_popup
          /\ app' = [app EXCEPT !.show_popup = app'.show_popup]
          /\ submitted' = "none"
          /\ rpc' = None
          /\ log' = log
          /\ pc' = "loop"]_vars

\* C20's case: '?' was read in Editing mode while the popup was shown, and
\* closed it.
C20_Witness ==
    /\ key = "?"
    /\ app.input_mode = "Editing"
    /\ app.query # <<>>
    /\ ~app.show_popup
    /\ app.current_rpc_network = "Testnet"

\* C21: from Normal mode 'e' switches to Editing mode and changes nothing
\* else, and the input mode becomes Editing by no step but the one that reads
\* 'e'.
C21_OnlyEditKeyStartsEditing ==
    /\ [][(HandleEvents("e", None) /\ app.input_mode = "Normal") =>
            app' = [app EXCEPT !.input_mode = "Editing"]]_vars
    /\ [][(app.input_mode = "Normal" /\ app'.input_mode = "Editing") =>
            HandleEvents("e", None)]_vars

\* C21's case: 'e' was read in Normal mode, with a query in the buffer.
C21_Witness ==
    /\ key = "e"
    /\ app.input_mode = "Editing"
    /\ app.query # <<>>
    /\ pc = "loop"

\* C22: Esc closes the help popup: after Esc has been read while the popup is
\* shown, the popup is not shown.
C22_EscClosesPopup ==
    [][(HandleEvents("Esc", None) /\ app.show_popup) => ~app'.show_popup]_vars

\* C23: started with a valid transaction signature as its argument, the
\* program checks the status once, prints it and exits on its own: it never
\* draws the interactive frame nor waits for a key.
C23_SignatureArgumentRunsOnce ==
    Signature_from_str(mainApp.query) => pc # "main_events"

\* C24: in the App of main.rs Right adds exactly 1 to the counter and Left
\* takes exactly 1 off, 'q' sets exit, and no other key changes the counter
\* or exit.
C24_CounterKeys ==
    [][\A k \in MainKeys :
          MainHandleEvents(k) =>
              /\ pc' = "main_run"
              /\ mainApp'.query = mainApp.query
              /\ mainApp'.counter =
                    CASE k = "Right" -> mainApp.counter + 1
                      [] k = "Left" -> mainApp.counter - 1
                      [] OTHER -> mainApp.counter
              /\ mainApp'.exit = (mainApp.exit \/ k = "q")]_vars

\* C30: the u8 counter of the App of main.rs never overflows: no Left or
\* Right panics, and every step changes the counter by 1 at most.
C30_CounterNeverOverflows ==
    /\ [](pc # "panic" /\ mainApp.counter \in 0..U8_MAX)
    /\ [][mainApp'.counter - mainApp.counter \in {-1, 0, 1}]_vars

\* The digits d in groups of three from the right, with commas between.
RECURSIVE GroupedFromRight(_)
GroupedFromRight(d) ==
    IF Len(d) <= 3 THEN d
    ELSE (GroupedFromRight(SubSeq(d, 1, Len(d) - 3)) \o <<",">>)
         \o SubSeq(d, Len(d) - 2, Len(d))

\* C25: format_longnumber returns, for every i64, its sign followed by its
\* decimal digits in groups of three from the right: "1,234,567" for 1234567,
\* "-42" for -42, and no comma for a magnitude below 1000.
C25_GroupsDigitsInThrees ==
    pc # "format" =>
        /\ pc = "formatted"
        /\ formatted = Some((IF number.neg THEN <<"-">> ELSE <<>>)
                                \o GroupedFromRight(number.digits))
        /\ number = I64(FALSE, <<"1", "2", "3", "4", "5", "6", "7">>) =>
              formatted = Some(<<"1", ",", "2", "3", "4", ",", "5", "6", "7">>)
        /\ number = I64(TRUE, <<"4", "2">>) => formatted = Some(<<"-", "4", "2">>)
        /\ Len(number.digits) <= 3 => \A i \in DOMAIN formatted[1] : formatted[1][i] # ","

\* C26: the frame is drawn once per iteration of the loop.  A key is read
\* only when the state has been drawn since the key before it; a draw is made
\* only at the head of an iteration and is followed by the reading of a key,
\* never by another draw; and after a key that does not quit has been
\* handled, and its fetch has returned, the draw is the only step there is.
C26_OneDrawPerIteration ==
    /\ [][(\E k \in Keys, clip \in {None} \cup {Some(c) : c \in Clipboard} :
              HandleEvents(k, clip)) => key = "none"]_vars
    /\ [][Draw => (pc = "loop" /\ pc' # "loop")]_vars
    /\ [](pc = "events" => (key = "none" /\ ~ENABLED Draw))
    /\ [](pc = "loop" =>
            /\ ENABLED Draw
            /\ \A k \in Keys : ~ENABLED HandleEvents(k, None))

\* C26's case: keys have been handled, the last of them has been drawn, and
\* the next key is about to be read.
C26_Witness ==
    /\ pc = "events"
    /\ key = "none"
    /\ app.input_mode = "Editing"
    /\ app.query # <<>>

\* C27: drawing succeeds in every reachable state: whenever a Transaction
\* Info result is displayed the query buffer holds at least 24 characters,
\* every signature listed in a transaction history has at least 23, and no
\* draw panics on a slice out of range.
C27_RenderSlicesInRange ==
    /\ pc # "panic"
    /\ (app.query # <<>> /\ app.json_response = Some(TransactionJson)) =>
          Len(app.query) >= 24
    /\ (app.query # <<>> /\ app.json_response = Some(AccountJson)
          /\ app.address_sign # None) =>
          \A i \in DOMAIN app.address_sign[1] : app.address_sign[1][i] >= 23

\* Some key is read and handled.
AnyKeyHandled ==
    \E k \in Keys, clip \in {None} \cup {Some(c) : c \in Clipboard} :
        HandleEvents(k, clip)

\* C28: in Normal mode no key changes the query buffer or triggers a fetch,
\* be it a character, Backspace, the paste key or Enter: the buffer changes
\* only in a step that starts in Editing mode, and fetch_data is called only
\* by Enter read in Editing mode.
C28_NormalModeFrame ==
    /\ [][(AnyKeyHandled /\ app.input_mode = "Normal") =>
            /\ app'.query = app.query
            /\ submitted' = "none"
            /\ rpc' = None
            /\ log' = log
            /\ pc' \in {"loop", "done"}]_vars
    /\ [][app'.query # app.query => (AnyKeyHandled /\ app.input_mode = "Editing")]_vars
    /\ [][(submitted = "none" /\ submitted' # "none") =>
            (HandleEvents("Enter", None) /\ app.input_mode = "Editing")]_vars

\* C28's case: the paste key was read in Normal mode with the clipboard
\* holding an address, after a query had been typed.
C28_Witness ==
    /\ key = "^v"
    /\ app.input_mode = "Normal"
    /\ app.query # <<>>
    /\ Len(app.query) < Len(SYSTEM_PROGRAM)

\* C29: every request of the dashboard load, getSlot, getSupply and
\* getTransactionCount, is sent to the endpoint of the network that is
\* selected when the load runs.
C29_DashboardUsesSelectedNetwork ==
    /\ (rpc # None /\ rpc[1].method \in DashboardMethods) =>
          rpc[1].url = get_current_rpc_url(app)
    /\ \A i \in DOMAIN log :
          log[i].method \in DashboardMethods => log[i].url = get_current_rpc_url(app)

\* C29's case: the load has made its three calls, getTransactionCount last.
C29_Witness ==
    /\ pc = "load_end"
    /\ Len(log) = 3
    /\ log[3].method = "getTransactionCount"
    /\ log[3].url = get_url(app.current_rpc_network)

=============================================================================
